---- MODULE Spec2Model ----
(***************************************************************************)
(* qFit 3.0: the accept loop of qfit_residue.main() and the parts of       *)
(* _BaseStructure it relies on (rmsd, _simple_select, _get_property, the   *)
(* attribute properties, copy and extract).                                *)
(*                                                                         *)
(* Coordinates are integers in units of 0.1 Angstrom.  rmsd() returns      *)
(* sqrt(3 * inner / size); the model keeps the exact rational under the    *)
(* root as the pair (sq3, size) = (3 * inner, size), so that comparisons   *)
(* of two RMSDs and of an RMSD with the 0.2 threshold are exact.           *)
(***************************************************************************)
EXTENDS Integers, Sequences, FiniteSets, TLC

VARIABLES
    \* ---- qfit_residue.main(), lines 145-171 ----
    conformers,      \* the list returned by qfit.get_conformers()
    n,               \* the index of enumerate(conformers, start=0)
    altloc,          \* the local variable altloc
    multiconformer,  \* the local multiconformer; bound = FALSE while unassigned
    files,           \* the files written so far, in order
    pc,              \* "loop", "done" or "raised" ("idle": main() is not run)
    exc,             \* the exception that ended the run, "" when none
    \* ---- a call of _BaseStructure.rmsd ----
    rmsdArgs,        \* <<self, structure>>
    rmsdOut,         \* what the call returned or raised
    \* ---- structures over shared backing stores ----
    stores,          \* the data dicts: attribute -> array
    structs,         \* the _BaseStructure objects: store, _selection, parent
    lastCall,        \* the last method call on a structure, with its result
    log              \* the logger.warning records of the latest lookup

mainVars == <<conformers, n, altloc, multiconformer, files, pc, exc>>
rmsdVars == <<rmsdArgs, rmsdOut>>
heapVars == <<stores, structs, lastCall, log>>
vars == <<conformers, n, altloc, multiconformer, files, pc, exc,
          rmsdArgs, rmsdOut, stores, structs, lastCall, log>>

(***************************************************************************)
(* Bounds of the model.                                                    *)
(***************************************************************************)
MaxConf == 3      \* longest list of conformers returned by the search
MaxCoord == 2     \* largest coordinate of a sampled atom position
NAtoms == 3       \* atoms in the structure read from file
MaxStructs == 3   \* structures (the root, views and copies) alive at once

(***************************************************************************)
(* Program constants.                                                      *)
(***************************************************************************)
\* 0.2 Angstrom, in units of 0.1 Angstrom: `conformer.rmsd(conf) < 0.2`
MinRmsdTenths == 2
\* the factor 3 in np.sqrt(3 * np.inner(diff, diff) / diff.size)
RmsdFactor == 3
\* the number of columns of a coordinate array
NDim == 3

ascii_uppercase ==
    << "A", "B", "C", "D", "E", "F", "G", "H", "I", "J", "K", "L", "M",
       "N", "O", "P", "Q", "R", "S", "T", "U", "V", "W", "X", "Y", "Z" >>

(***************************************************************************)
(* Helpers on sequences.                                                   *)
(***************************************************************************)
Range(s) == { s[i] : i \in DOMAIN s }

\* list.index(x): the first position of x, 0 when Python raises ValueError
ListIndex(list, x) ==
    IF \E i \in DOMAIN list : list[i] = x
    THEN CHOOSE i \in DOMAIN list :
            list[i] = x /\ \A j \in 1..(i - 1) : list[j] # x
    ELSE 0

\* np.inner(diff, diff) for diff = (coor1 - coor2).ravel()
RECURSIVE InnerFrom(_, _, _)
InnerFrom(coor1, coor2, k) ==
    IF k > Len(coor1) * NDim THEN 0
    ELSE LET i == ((k - 1) \div NDim) + 1
             d == ((k - 1) % NDim) + 1
             diff == coor1[i][d] - coor2[i][d]
         IN  diff * diff + InnerFrom(coor1, coor2, k + 1)

Inner(coor1, coor2) == InnerFrom(coor1, coor2, 1)

Min(a, b) == IF a <= b THEN a ELSE b

(***************************************************************************)
(* _BaseStructure.rmsd.  A structure value is a record                     *)
(*   [resn : per-atom residue names, name : per-atom atom names,           *)
(*    coor : per-atom coordinate triples, altloc : per-atom labels].       *)
(***************************************************************************)
RmsdValue(inner, size) == [err |-> "", sq3 |-> RmsdFactor * inner, size |-> size]
RmsdRaise(what) == [err |-> what, sq3 |-> 0, size |-> 0]

\* coor3 = np.copy(coor2) with rows (cd1, cd2) and (ce1, ce2) exchanged
RingFlip(coor2, cd1, cd2, ce1, ce2) ==
    LET step1 == [coor2 EXCEPT ![cd1] = coor2[cd2], ![cd2] = coor2[cd1]]
    IN  [step1 EXCEPT ![ce1] = coor2[ce2], ![ce2] = coor2[ce1]]

\* lines 138-148 (TYR) and 150-160 (PHE): the same statements in both branches
rmsd_ring(coor1, coor2, structure) ==
    LET size == Len(coor1) * NDim
        idx_cd1 == ListIndex(structure.name, "CD1")
        idx_cd2 == ListIndex(structure.name, "CD2")
        idx_ce1 == ListIndex(structure.name, "CE1")
        idx_ce2 == ListIndex(structure.name, "CE2")
    IN  IF 0 \in {idx_cd1, idx_cd2, idx_ce1, idx_ce2}
        THEN RmsdRaise("ValueError")
        ELSE LET coor3 == RingFlip(coor2, idx_cd1, idx_cd2, idx_ce1, idx_ce2)
             IN  RmsdValue(Min(Inner(coor1, coor2), Inner(coor1, coor3)), size)

\* a plausible slip: the ring flip is left out
rmsd_noflip(self, structure) ==
    IF Len(self.coor) # Len(structure.coor)
    THEN RmsdRaise("ValueError")
    ELSE RmsdValue(Inner(self.coor, structure.coor), Len(self.coor) * NDim)

rmsd(self, structure) ==
    LET coor1 == self.coor
        coor2 == structure.coor
    IN  IF Len(coor1) # Len(coor2)
        THEN RmsdRaise("ValueError")
        ELSE IF "TYR" \in Range(self.resn)
        THEN rmsd_ring(coor1, coor2, structure)
        ELSE IF "PHE" \in Range(self.resn)
        THEN rmsd_ring(coor1, coor2, structure)
        ELSE RmsdValue(Inner(coor1, coor2), Len(coor1) * NDim)

\* `r < 0.2` for a returned RMSD r: sqrt(sq3 / size) / 10 < MinRmsdTenths / 10
BelowMin(r) == r.sq3 < MinRmsdTenths * MinRmsdTenths * r.size

(***************************************************************************)
(* Inputs: residues and their sampled conformers.                          *)
(***************************************************************************)
\* atom positions 0.141 Angstrom apart along a diagonal
Pts == { <<x, x, 0>> : x \in 0..MaxCoord }
EndPts == { <<0, 0, 0>>, <<MaxCoord, MaxCoord, 0>> }

Shift(p, dz) == <<p[1], p[2], p[3] + dz>>

RingNames == << "CD1", "CD2", "CE1", "CE2" >>
ChainNames == << "CA", "CB" >>

MkStructure(resn, names, coor, label) ==
    [resn |-> [i \in DOMAIN coor |-> resn],
     name |-> names,
     coor |-> coor,
     altloc |-> [i \in DOMAIN coor |-> label]]

\* an aromatic ring: CD1/CE1 on one side, CD2/CE2 on the other
RingConformers(resn, label, P, Q) ==
    { MkStructure(resn, RingNames, <<a, b, Shift(a, 5), Shift(b, 5)>>, label) :
        a \in P, b \in Q }

\* a residue modelled with both atoms, or truncated to its first atom
ChainConformers(resn, names, label) ==
    { MkStructure(resn, names, <<<<0, 0, 0>>, b>>, label) : b \in Pts }
    \cup { MkStructure(resn, SubSeq(names, 1, 1), <<b>>, label) : b \in Pts }

ConformerSets ==
    { RingConformers("PHE", "", Pts, EndPts),
      RingConformers("TYR", "B", EndPts, EndPts),
      ChainConformers("SER", ChainNames, ""),
      ChainConformers("PHE", ChainNames, "B") }

RECURSIVE ListsOf(_, _)
ListsOf(S, len) ==
    IF len = 0 THEN { <<>> }
    ELSE { Append(l, c) : l \in ListsOf(S, len - 1), c \in S }

(***************************************************************************)
(* A call of rmsd on two structures of one residue.                        *)
(***************************************************************************)
NoCall == [op |-> "none"]

IdleMain ==
    /\ conformers = <<>> /\ n = 0 /\ altloc = ""
    /\ multiconformer = [bound |-> FALSE] /\ files = <<>>
    /\ pc = "idle" /\ exc = ""

IdleRmsd == rmsdArgs = <<>> /\ rmsdOut = NoCall

IdleHeap == stores = <<>> /\ structs = <<>> /\ lastCall = NoCall /\ log = <<>>

InitRmsd ==
    /\ IdleMain /\ IdleHeap
    /\ \E S \in ConformerSets : \E a \in S, b \in S : rmsdArgs = <<a, b>>
    /\ rmsdOut = NoCall

RmsdCall ==
    /\ rmsdOut = NoCall
    /\ rmsdOut' = [op |-> "rmsd", out |-> rmsd(rmsdArgs[1], rmsdArgs[2])]
    /\ UNCHANGED <<rmsdArgs, mainVars, heapVars>>

NextRmsd == RmsdCall

SpecRmsd == InitRmsd /\ [][NextRmsd]_vars

(***************************************************************************)
(* qfit_residue.main(), lines 145-171: the accept loop and the final       *)
(* write.  One step is one pass through the body of the for loop.          *)
(* MaxConf stays below Len(ascii_uppercase), so ascii_uppercase[n] is      *)
(* always defined.                                                         *)
(***************************************************************************)
InitMain ==
    /\ IdleRmsd /\ IdleHeap
    /\ \E S \in ConformerSets : \E len \in 0..MaxConf :
          conformers \in ListsOf(S, len)
    /\ n = 0
    /\ altloc = ""
    /\ multiconformer = [bound |-> FALSE]
    /\ files = <<>>
    /\ pc = "loop"
    /\ exc = ""

nconformers == Len(conformers)

\* the conformer the loop is at (Python's conformers[n])
Current == conformers[n + 1]

\* lines 149-150
LoopAltloc == IF nconformers > 1 THEN ascii_uppercase[n + 1] ELSE altloc

\* a plausible slip: only the conformer just before is compared
CheckPrev_lastOnly(conformer, prev, k) ==
    IF prev = <<>> THEN "accept"
    ELSE LET r == rmsd(conformer, prev[Len(prev)])
         IN  IF r.err # "" THEN r.err
             ELSE IF BelowMin(r) THEN "skip" ELSE "accept"

\* a plausible slip: a comparison that raises is skipped over as a duplicate
RECURSIVE CheckPrev_swallow(_, _, _)
CheckPrev_swallow(conformer, prev, k) ==
    IF k > Len(prev) THEN "accept"
    ELSE LET r == rmsd(conformer, prev[k])
         IN  IF r.err # "" \/ BelowMin(r) THEN "skip"
             ELSE CheckPrev_swallow(conformer, prev, k + 1)

\* lines 151-157: for conf in conformers[:n], from position k of prev on.
\* "skip", "accept", or the name of the exception rmsd raised.
RECURSIVE CheckPrev(_, _, _)
CheckPrev(conformer, prev, k) ==
    IF k > Len(prev) THEN "accept"
    ELSE LET r == rmsd(conformer, prev[k])
         IN  IF r.err # "" THEN r.err
             ELSE IF BelowMin(r) THEN "skip"
             ELSE CheckPrev(conformer, prev, k + 1)

Verdict == CheckPrev(Current, SubSeq(conformers, 1, n), 1)

\* the property setter on a structure that is its own root: array[:] = value
SetAltloc(structure, value) ==
    [structure EXCEPT !.altloc = [i \in DOMAIN structure.altloc |-> value]]

\* Structure.combine: the arrays of both structures, concatenated
combine(self, structure) ==
    [resn |-> self.resn \o structure.resn,
     name |-> self.name \o structure.name,
     coor |-> self.coor \o structure.coor,
     altloc |-> self.altloc \o structure.altloc]

\* a plausible slip: the accumulator is rebuilt from every conformer
Merge_reinit(acc, conformer) == [bound |-> TRUE, data |-> conformer]

\* lines 164-167: combine, or start from a copy when the name is unbound
Merge(acc, conformer) ==
    IF acc.bound
    THEN [bound |-> TRUE, data |-> combine(acc.data, conformer)]
    ELSE [bound |-> TRUE, data |-> conformer]

\* lines 158-159
LoopSkip ==
    /\ pc = "loop" /\ n < nconformers
    /\ Verdict = "skip"
    /\ altloc' = LoopAltloc
    /\ n' = n + 1
    /\ UNCHANGED <<conformers, multiconformer, files, pc, exc, rmsdVars, heapVars>>

\* lines 160-167
LoopAccept ==
    /\ pc = "loop" /\ n < nconformers
    /\ Verdict = "accept"
    /\ altloc' = LoopAltloc
    /\ LET written == SetAltloc(Current, "")
           labelled == SetAltloc(Current, LoopAltloc)
       IN  /\ files' = Append(files, [fname |-> <<"conformer", n>>, data |-> written])
           /\ conformers' = [conformers EXCEPT ![n + 1] = labelled]
           /\ multiconformer' = Merge(multiconformer, labelled)
    /\ n' = n + 1
    /\ UNCHANGED <<pc, exc, rmsdVars, heapVars>>

\* line 154 raises and nothing in main() catches it
LoopRaise ==
    /\ pc = "loop" /\ n < nconformers
    /\ Verdict \notin {"skip", "accept"}
    /\ altloc' = LoopAltloc
    /\ pc' = "raised"
    /\ exc' = Verdict
    /\ UNCHANGED <<conformers, n, multiconformer, files, rmsdVars, heapVars>>

\* lines 168-171
FinalWrite ==
    /\ pc = "loop" /\ n = nconformers
    /\ multiconformer.bound
    /\ files' = Append(files, [fname |-> <<"multiconformer">>,
                               data |-> multiconformer.data])
    /\ pc' = "done"
    /\ UNCHANGED <<conformers, n, altloc, multiconformer, exc, rmsdVars, heapVars>>

\* line 171 with no conformer at all: multiconformer was never assigned
FinalUnbound ==
    /\ pc = "loop" /\ n = nconformers
    /\ ~multiconformer.bound
    /\ pc' = "raised"
    /\ exc' = "UnboundLocalError"
    /\ UNCHANGED <<conformers, n, altloc, multiconformer, files, rmsdVars, heapVars>>

NextMain == LoopSkip \/ LoopAccept \/ LoopRaise \/ FinalWrite \/ FinalUnbound

SpecMain == InitMain /\ [][NextMain]_vars

(***************************************************************************)
(* What a run has produced, read off the files it wrote.                   *)
(***************************************************************************)
ConformerFiles == SelectSeq(files, LAMBDA f : f.fname[1] = "conformer")
CombinedFiles == SelectSeq(files, LAMBDA f : f.fname[1] = "multiconformer")

\* the indices n of the accepted conformers, in acceptance order
AcceptedSeq == [k \in DOMAIN ConformerFiles |-> ConformerFiles[k].fname[2]]
AcceptedIdx == Range(AcceptedSeq)

\* the accepted conformer with index i, as the loop left it
AcceptedConf(i) == conformers[i + 1]

\* the RMSD of two conformers is a number below 0.2
Near(a, b) == LET r == rmsd(a, b) IN r.err = "" /\ BelowMin(r)

\* C1: no two conformers that were accepted (written and merged) have a
\* pairwise RMSD below 0.2, in either direction of the comparison.
C1_AcceptedPairwiseApart ==
    \A i \in AcceptedIdx : \A j \in AcceptedIdx :
        i # j => /\ rmsd(AcceptedConf(i), AcceptedConf(j)).err = ""
                 /\ ~BelowMin(rmsd(AcceptedConf(i), AcceptedConf(j)))

\* a finished run that accepted two conformers and discarded a third
C1_Witness ==
    /\ pc = "done"
    /\ Len(AcceptedSeq) >= 2
    /\ Len(AcceptedSeq) < nconformers

\* C2 as stated: a visited conformer is discarded exactly when it is within
\* 0.2 of some previously ACCEPTED conformer (so one that is only near a
\* discarded conformer is accepted).
C2_DiscardedIffNearAccepted ==
    \A k \in 0..(n - 1) :
        (k \notin AcceptedIdx) <=>
            \E j \in AcceptedIdx : j < k /\ Near(conformers[k + 1], AcceptedConf(j))

\* C3 as stated: when more than one conformer is accepted, the k-th accepted
\* conformer carries the k-th uppercase letter.
C3_LabelsConsecutive ==
    (pc = "done" /\ Len(AcceptedSeq) > 1) =>
        \A k \in DOMAIN AcceptedSeq :
            Range(AcceptedConf(AcceptedSeq[k]).altloc) = { ascii_uppercase[k] }

\* C4 as stated: when exactly one conformer is accepted, its altloc in the
\* combined output is the empty label.
C4_SingleSurvivorUnlabelled ==
    (pc = "done" /\ Len(AcceptedSeq) = 1) =>
        Range(CombinedFiles[1].data.altloc) = { "" }

\* the inner loop of the conformer the loop is at reaches a comparison of
\* two coordinate arrays of different shape
ReachesShapeMismatch ==
    /\ pc = "loop" /\ n < nconformers
    /\ \E j \in 1..n :
         /\ Len(conformers[j].coor) # Len(Current.coor)
         /\ \A i \in 1..(j - 1) :
               /\ rmsd(Current, conformers[i]).err = ""
               /\ ~BelowMin(rmsd(Current, conformers[i]))

\* C8: a comparison of two coordinate arrays of different shape raises, the
\* loop does not catch it, and the run ends there: that conformer and every
\* later one is neither written nor merged, and the combined file is never
\* written.
C8_ShapeMismatchAborts ==
    /\ [][ReachesShapeMismatch =>
            /\ pc' = "raised" /\ exc' = "ValueError"
            /\ files' = files /\ multiconformer' = multiconformer]_vars
    /\ [][pc = "raised" => (pc' = "raised" /\ files' = files)]_vars
    /\ [](pc = "raised" => CombinedFiles = <<>>)

\* a run that wrote a conformer and then ended on a shape mismatch, with
\* conformers left unvisited
C8_Witness ==
    /\ pc = "raised" /\ exc = "ValueError"
    /\ \E j \in 1..n : Len(conformers[j].coor) # Len(Current.coor)
    /\ ConformerFiles # <<>>
    /\ n + 1 < nconformers

RECURSIVE ConcatAccepted(_)
ConcatAccepted(k) ==
    IF k = 0 THEN [resn |-> <<>>, name |-> <<>>, coor |-> <<>>, altloc |-> <<>>]
    ELSE LET head == ConcatAccepted(k - 1)
             c == AcceptedConf(AcceptedSeq[k])
         IN  [resn |-> head.resn \o c.resn, name |-> head.name \o c.name,
              coor |-> head.coor \o c.coor, altloc |-> head.altloc \o c.altloc]

SqDist(p, q) ==
    (p[1] - q[1]) * (p[1] - q[1]) + (p[2] - q[2]) * (p[2] - q[2])
        + (p[3] - q[3]) * (p[3] - q[3])

\* the summed squared distance of atom i of a to atom perm[i] of b
RECURSIVE SumSqDist(_, _, _, _)
SumSqDist(a, b, perm, i) ==
    IF i = 0 THEN 0
    ELSE SqDist(a.coor[i], b.coor[perm[i]]) + SumSqDist(a, b, perm, i - 1)

IdentityOrder(b) == [i \in DOMAIN b.name |-> i]

RingPartner(nm) ==
    CASE nm = "CD1" -> "CD2" [] nm = "CD2" -> "CD1"
      [] nm = "CE1" -> "CE2" [] nm = "CE2" -> "CE1"
      [] OTHER -> nm

\* the atom of b that carries the ring-flipped name of atom i
RingFlipOrder(b) ==
    [i \in DOMAIN b.name |->
        CHOOSE j \in DOMAIN b.name : b.name[j] = RingPartner(b.name[i])]

Aromatic(a) == \E i \in DOMAIN a.resn : a.resn[i] \in {"PHE", "TYR"}
HasRing(b) == Range(RingNames) \subseteq Range(b.name)

\* rmsd^2 = sq3 / size equals 3 * total / (3 * natoms)
IsRmsdOf(out, total, natoms) ==
    out.err = "" /\ out.sq3 * NDim * natoms = RmsdFactor * total * out.size

Attrs == { "e", "altloc", "resi" }

None == [none |-> TRUE, idx |-> <<>>]
Indices(idx) == [none |-> FALSE, idx |-> idx]

\* lines 70-73
natoms(st, self) ==
    IF self.selection.none THEN Len(st[self.store].e)
    ELSE Len(self.selection.idx)

\* lines 76-80: the property getter
Get(st, self, attr) ==
    IF self.selection.none
    THEN st[self.store][attr]
    ELSE [k \in DOMAIN self.selection.idx |->
             st[self.store][attr][self.selection.idx[k]]]

\* a plausible slip: the setter writes the whole array, whatever the view
Set_whole(st, self, attr, value) ==
    [st EXCEPT ![self.store][attr] =
        [i \in DOMAIN st[self.store][attr] |-> value]]

\* lines 82-86: the property setter, for a scalar value
Set(st, self, attr, value) ==
    IF self.selection.none
    THEN [st EXCEPT ![self.store][attr] =
            [i \in DOMAIN st[self.store][attr] |-> value]]
    ELSE [st EXCEPT ![self.store][attr] =
            [i \in DOMAIN st[self.store][attr] |->
                IF i \in Range(self.selection.idx) THEN value
                ELSE st[self.store][attr][i]]]

\* operator.eq / gt / ge / le / lt on one array element
Compare(fn, x, value) ==
    CASE fn = "eq" -> x = value
      [] fn = "gt" -> x > value
      [] fn = "ge" -> x >= value
      [] fn = "le" -> x <= value
      [] fn = "lt" -> x < value

\* line 45: note that '!=' maps to eq
_COMPARISON_DICT ==
    [c \in {"==", "!=", ">", ">=", "<=", "<"} |->
        CASE c = "==" -> "eq" [] c = "!=" -> "eq" [] c = ">" -> "gt"
          [] c = ">=" -> "ge" [] c = "<=" -> "le" [] c = "<" -> "lt"]

\* lines 178-181: mask |= comparison(data, value), value by value
RECURSIVE MaskLoop(_, _, _, _, _)
MaskLoop(mask, data, fn, values, k) ==
    IF k > Len(values) THEN mask
    ELSE MaskLoop([i \in DOMAIN mask |-> mask[i] \/ Compare(fn, data[i], values[k])],
                  data, fn, values, k + 1)

\* np.flatnonzero(mask) / selection[mask]: the chosen entries, in order
RECURSIVE Masked(_, _, _)
Masked(idx, mask, k) ==
    IF k > Len(mask) THEN <<>>
    ELSE (IF mask[k] THEN <<idx[k]>> ELSE <<>>) \o Masked(idx, mask, k + 1)

\* A Python argument `values`: a str, another non-iterable scalar, or a tuple
StrArg(v) == [iterable |-> TRUE, str |-> TRUE, v |-> v]
ScalarArg(v) == [iterable |-> FALSE, str |-> FALSE, v |-> v]
TupleArg(v) == [iterable |-> TRUE, str |-> FALSE, v |-> v]

\* lines 176-177
AsTuple(values) ==
    IF ~values.iterable \/ values.str THEN <<values.v>> ELSE values.v

\* a plausible slip: the mask of '!=' is not negated after the loop
_simple_select_noneg(st, self, attr, values, comparison_str) ==
    LET data == Get(st, self, attr)
        mask == MaskLoop([i \in 1..natoms(st, self) |-> FALSE], data,
                         _COMPARISON_DICT[comparison_str], AsTuple(values), 1)
    IN  IF self.selection.none
        THEN Masked([i \in DOMAIN mask |-> i], mask, 1)
        ELSE Masked(self.selection.idx, mask, 1)

\* lines 173-188
_simple_select(st, self, attr, values, comparison_str) ==
    LET data == Get(st, self, attr)
        comparison == _COMPARISON_DICT[comparison_str]
        mask0 == [i \in 1..natoms(st, self) |-> FALSE]
        mask1 == MaskLoop(mask0, data, comparison, AsTuple(values), 1)
        mask == IF comparison_str = "!="
                THEN [i \in DOMAIN mask1 |-> ~mask1[i]]
                ELSE mask1
    IN  IF self.selection.none
        THEN Masked([i \in DOMAIN mask |-> i], mask, 1)
        ELSE Masked(self.selection.idx, mask, 1)

(***************************************************************************)
(* Element symbols are strings of characters, so that str.capitalize and   *)
(* the sorting of np.unique act on them as they do in Python.              *)
(***************************************************************************)
Upper == [c \in {"C", "E", "F", "H", "N", "X", "c", "e", "f", "h", "n", "x"} |->
            CASE c \in {"C", "c"} -> "C" [] c \in {"E", "e"} -> "E"
              [] c \in {"F", "f"} -> "F" [] c \in {"H", "h"} -> "H"
              [] c \in {"N", "n"} -> "N" [] c \in {"X", "x"} -> "X"]
Lower == [c \in DOMAIN Upper |->
            CASE c \in {"C", "c"} -> "c" [] c \in {"E", "e"} -> "e"
              [] c \in {"F", "f"} -> "f" [] c \in {"H", "h"} -> "h"
              [] c \in {"N", "n"} -> "n" [] c \in {"X", "x"} -> "x"]
\* the order of the characters: uppercase before lowercase, each alphabetical
Ord == [c \in DOMAIN Upper |->
            CASE c = "C" -> 1 [] c = "E" -> 2 [] c = "F" -> 3 [] c = "H" -> 4
              [] c = "N" -> 5 [] c = "X" -> 6 [] c = "c" -> 7 [] c = "e" -> 8
              [] c = "f" -> 9 [] c = "h" -> 10 [] c = "n" -> 11 [] c = "x" -> 12]

\* str.capitalize
capitalize(str) ==
    [k \in DOMAIN str |-> IF k = 1 THEN Upper[str[k]] ELSE Lower[str[k]]]

\* Python's str < str
RECURSIVE StrLess(_, _)
StrLess(x, y) ==
    IF y = <<>> THEN FALSE
    ELSE IF x = <<>> THEN TRUE
    ELSE IF x[1] # y[1] THEN Ord[x[1]] < Ord[y[1]]
    ELSE StrLess(Tail(x), Tail(y))

\* np.unique(array): the distinct values, sorted
RECURSIVE SortedSeq(_)
SortedSeq(S) ==
    IF S = {} THEN <<>>
    ELSE LET least == CHOOSE x \in S : \A y \in S \ {x} : StrLess(x, y)
         IN  <<least>> \o SortedSeq(S \ {least})

np_unique(array) ==
    LET elements == SortedSeq(Range(array))
    IN  [elements |-> elements,
         ind |-> [i \in DOMAIN array |-> ListIndex(elements, array[i])]]

\* the table of qfit.structure.elements: symbol -> covalent and van der Waals
\* radius, in picometre
ELEMENTS ==
    (<<"H">> :> [covrad |-> 32, vdwrad |-> 109])
    @@ (<<"C">> :> [covrad |-> 77, vdwrad |-> 170])
    @@ (<<"N">> :> [covrad |-> 75, vdwrad |-> 155])
    @@ (<<"F", "e">> :> [covrad |-> 125, vdwrad |-> 204])

\* lines 93-99, for the elements from position k on: the values and the
\* warnings of the loop
RECURSIVE PropertyLoop(_, _, _)
PropertyLoop(elements, ptype, k) ==
    IF k > Len(elements) THEN [values |-> <<>>, warnings |-> <<>>]
    ELSE LET e == elements[k]
             rest == PropertyLoop(elements, ptype, k + 1)
         IN  IF capitalize(e) \in DOMAIN ELEMENTS
             THEN [values |-> <<ELEMENTS[capitalize(e)][ptype]>> \o rest.values,
                   warnings |-> rest.warnings]
             ELSE [values |-> <<ELEMENTS[<<"C">>][ptype]>> \o rest.values,
                   warnings |-> <<[level |-> "WARNING", element |-> e]>>
                                    \o rest.warnings]

\* a plausible slip: the element is looked up as it is written
_get_property_nocap(st, self, ptype) ==
    LET u == np_unique(Get(st, self, "e"))
        known == [k \in DOMAIN u.elements |-> u.elements[k] \in DOMAIN ELEMENTS]
    IN  [out |-> [i \in DOMAIN u.ind |->
                    IF known[u.ind[i]] THEN ELEMENTS[u.elements[u.ind[i]]][ptype]
                    ELSE ELEMENTS[<<"C">>][ptype]],
         warnings |-> SelectSeq([k \in DOMAIN u.elements |->
                                    [level |-> "WARNING", element |-> u.elements[k]]],
                                LAMBDA w : w.element \notin DOMAIN ELEMENTS)]

\* lines 90-101
_get_property(st, self, ptype) ==
    LET u == np_unique(Get(st, self, "e"))
        loop == PropertyLoop(u.elements, ptype, 1)
    IN  [out |-> [i \in DOMAIN u.ind |-> loop.values[u.ind[i]]],
         warnings |-> loop.warnings]

(***************************************************************************)
(* Structures at work: select, extract, copy, attribute assignment and     *)
(* the radius lookup, on a structure read from file.                       *)
(***************************************************************************)
Cycle(pattern) == [i \in 1..NAtoms |-> pattern[((i - 1) % Len(pattern)) + 1]]

InitStores ==
    { [e |-> Cycle(es), altloc |-> Cycle(as), resi |-> [i \in 1..NAtoms |-> (i + 1) \div 2]] :
        es \in { << <<"C">>, <<"F", "E">>, <<"X">> >>,
                 << <<"x">>, <<"H">>, <<"X">>, <<"X">> >>,
                 << <<"N">>, <<"C">>, <<"C">>, <<"f", "e">> >> },
        as \in { << "", "A", "B" >>, << "A", "A", "", "" >> } }

InitHeap ==
    /\ IdleMain /\ IdleRmsd
    /\ \E st \in InitStores : stores = <<st>>
    /\ structs = << [store |-> 1, selection |-> None, parent |-> 0] >>
    /\ lastCall = NoCall
    /\ log = <<>>

\* the calls of select / extract with values that the model makes:
\* attribute, values, comparison
SelectArgs ==
    << <<"e", StrArg(<<"H">>), "!=">>,
       <<"altloc", TupleArg(<<"", "A">>), "==">>,
       <<"resi", ScalarArg(2), "<">>,
       <<"e", StrArg(<<"C">>), "==">>,
       <<"e", TupleArg(<< <<"C">>, <<"X">> >>), "!=">>,
       <<"e", TupleArg(<<>>), "!=">>,
       <<"altloc", StrArg("C"), "!=">>,
       <<"resi", ScalarArg(2), "==">>,
       <<"resi", ScalarArg(2), ">">>,
       <<"resi", ScalarArg(1), ">=">>,
       <<"resi", ScalarArg(1), "<=">>,
       <<"resi", TupleArg(<<1, 3>>), "!=">> >>

\* the attribute assignments that the model makes
SetArgs == << <<"altloc", "C">>, <<"resi", 2>> >>

\* lines 165-171: select(string, values, comparison) with values given
select(st, self, string, values, comparison) ==
    _simple_select(st, self, string, values, comparison)

\* lines 120-125: extract(attr, values, comparison)
Extract(s, attr, values, cmp) ==
    /\ Len(structs) < MaxStructs
    /\ LET selection == select(stores, structs[s], attr, values, cmp)
       IN  structs' = Append(structs, [store |-> structs[s].store,
                                       selection |-> Indices(selection),
                                       parent |-> s])
    /\ lastCall' = [op |-> "extract", self |-> s, attr |-> attr, values |-> values,
                    comparison |-> cmp, out |-> Len(structs) + 1]
    /\ UNCHANGED <<stores, log, mainVars, rmsdVars>>

\* lines 112-114: data[attr] = getattr(self, attr).copy()
CopyData(st, self) == [attr \in Attrs |-> Get(st, self, attr)]

\* lines 111-115
Copy(s) ==
    /\ Len(structs) < MaxStructs
    /\ stores' = Append(stores, CopyData(stores, structs[s]))
    /\ structs' = Append(structs, [store |-> Len(stores) + 1, selection |-> None,
                                   parent |-> 0])
    /\ lastCall' = [op |-> "copy", self |-> s, out |-> Len(structs) + 1]
    /\ UNCHANGED <<log, mainVars, rmsdVars>>

\* lines 82-86: structure.attr = value
SetAttr(s, attr, value) ==
    /\ stores' = Set(stores, structs[s], attr, value)
    /\ lastCall' = [op |-> "set", self |-> s, attr |-> attr, value |-> value]
    /\ UNCHANGED <<structs, log, mainVars, rmsdVars>>

\* lines 103-109: covalent_radius, vdw_radius.  log holds the warnings of the
\* latest lookup.
GetProperty(s, ptype) ==
    /\ LET r == _get_property(stores, structs[s], ptype)
       IN  /\ lastCall' = [op |-> "_get_property", self |-> s, ptype |-> ptype,
                           out |-> r.out]
           /\ log' = r.warnings
    /\ UNCHANGED <<stores, structs, mainVars, rmsdVars>>

ExtractStep ==
    \E s \in DOMAIN structs : \E k \in DOMAIN SelectArgs :
        Extract(s, SelectArgs[k][1], SelectArgs[k][2], SelectArgs[k][3])

CopyStep == \E s \in DOMAIN structs : Copy(s)

SetAttrStep ==
    \E s \in DOMAIN structs : \E k \in DOMAIN SetArgs :
        SetAttr(s, SetArgs[k][1], SetArgs[k][2])

GetPropertyStep ==
    \E s \in DOMAIN structs : \E ptype \in {"covrad", "vdwrad"} :
        GetProperty(s, ptype)

\* the selections that make the views which are looked up and written through
ViewArgs == SubSeq(SelectArgs, 1, 2)

ExtractViewStep ==
    \E s \in DOMAIN structs : \E k \in DOMAIN ViewArgs :
        Extract(s, ViewArgs[k][1], ViewArgs[k][2], ViewArgs[k][3])

\* selections of every kind, on the root, on views and on copies
NextSelect == ExtractStep \/ CopyStep
SpecSelect == InitHeap /\ [][NextSelect]_vars

\* radius lookups on the root, on views and on copies
NextProperty == ExtractViewStep \/ CopyStep \/ GetPropertyStep
SpecProperty == InitHeap /\ [][NextProperty]_vars

\* attribute assignments through the root, views and copies
NextView == ExtractViewStep \/ CopyStep \/ SetAttrStep
SpecView == InitHeap /\ [][NextView]_vars

(***************************************************************************)
(* Structures: properties stated on the atoms of the stores.               *)
(***************************************************************************)
\* the store indices of the atoms that a structure shows
AtomsOf(st, self) ==
    IF self.selection.none THEN DOMAIN st[self.store].e
    ELSE Range(self.selection.idx)

\* the store index of the k-th atom of a structure
AtomAt(self, k) == IF self.selection.none THEN k ELSE self.selection.idx[k]

\* the set of values that an argument `values` stands for
ValueSet(values) ==
    IF values.str \/ ~values.iterable THEN { values.v } ELSE Range(values.v)

\* C6: with '==' _simple_select returns exactly the store indices of the
\* structure's atoms whose attribute is one of the values, with '!=' exactly
\* those whose attribute is none of them; the two results are disjoint,
\* together they are all atoms of the structure, and no atom outside the
\* structure's own selection is returned.  A str or a non-iterable counts as
\* a set of one value.
C6_SelectMembership ==
    (lastCall.op = "extract" /\ lastCall.comparison \in {"==", "!="}) =>
        LET self == structs[lastCall.self]
            view == structs[lastCall.out]
            got == Range(view.selection.idx)
            atoms == AtomsOf(stores, self)
            V == ValueSet(lastCall.values)
            hits == { i \in atoms : stores[self.store][lastCall.attr][i] \in V }
            eqs == Range(_simple_select(stores, self, lastCall.attr,
                                        lastCall.values, "=="))
            nes == Range(_simple_select(stores, self, lastCall.attr,
                                        lastCall.values, "!="))
        IN  /\ ~view.selection.none
            /\ Cardinality(got) = Len(view.selection.idx)
            /\ (lastCall.comparison = "==") => got = hits
            /\ (lastCall.comparison = "!=") => got = atoms \ hits
            /\ eqs \cap nes = {}
            /\ eqs \cup nes = atoms
            /\ got \subseteq atoms

\* a '!=' selection with several values on a view that is itself a
\* selection, keeping some of the view's atoms and dropping others
C6_Witness ==
    /\ lastCall.op = "extract" /\ lastCall.comparison = "!="
    /\ ~lastCall.values.str /\ Len(lastCall.values.v) = 2
    /\ ~structs[lastCall.self].selection.none
    /\ structs[lastCall.out].selection.idx # <<>>
    /\ Len(structs[lastCall.out].selection.idx)
          < Len(structs[lastCall.self].selection.idx)

\* the element of an atom is in the table, under its capitalized spelling
Known(e) == capitalize(e) \in DOMAIN ELEMENTS

\* C7: the radius lookup returns one value per atom, in atom order: the table
\* value of the atom's element when the table has it, the carbon value when
\* it has not; and it logs one warning for each unknown element.
C7_UnknownElementIsCarbon ==
    (lastCall.op = "_get_property") =>
        LET self == structs[lastCall.self]
            es == Get(stores, self, "e")
            unknown == { es[k] : k \in { j \in DOMAIN es : ~Known(es[j]) } }
        IN  /\ Len(lastCall.out) = natoms(stores, self)
            /\ \A k \in DOMAIN es :
                  lastCall.out[k] =
                     IF Known(es[k]) THEN ELEMENTS[capitalize(es[k])][lastCall.ptype]
                     ELSE ELEMENTS[<<"C">>][lastCall.ptype]
            /\ \A w \in Range(log) : w.level = "WARNING"
            /\ { w.element : w \in Range(log) } = unknown
            /\ Len(log) = Cardinality(unknown)

\* a lookup on a view holding a known element spelled in capitals and an
\* unknown one
C7_Witness ==
    /\ lastCall.op = "_get_property"
    /\ ~structs[lastCall.self].selection.none
    /\ LET es == Get(stores, structs[lastCall.self], "e")
       IN  /\ \E k \in DOMAIN es : Known(es[k]) /\ capitalize(es[k]) # es[k]
           /\ \E k \in DOMAIN es : ~Known(es[k])
    /\ log # <<>>

\* the structure at the top of the parent chain
RECURSIVE Root(_, _)
Root(ss, s) == IF ss[s].parent = 0 THEN s ELSE Root(ss, ss[s].parent)

\* C10: an assignment through a structure changes, in its store, exactly the
\* atoms of its selection; the new values show through every structure that
\* descends from the same root by extract(), and nothing changes in a
\* structure made by copy() or in the original of a copy.
C10_ViewWritesSharedCopyOwn ==
    [][(lastCall'.op = "set") =>
        LET self == structs[lastCall'.self]
            attr == lastCall'.attr
            value == lastCall'.value
            written == AtomsOf(stores, self)
        IN  /\ structs' = structs
            /\ DOMAIN stores' = DOMAIN stores
            /\ \A i \in DOMAIN stores : \A b \in Attrs :
                  \A j \in DOMAIN stores[i][b] :
                     stores'[i][b][j] =
                        IF i = self.store /\ b = attr /\ j \in written
                        THEN value ELSE stores[i][b][j]
            /\ \A t \in DOMAIN structs : \A b \in Attrs :
                  Get(stores', structs[t], b) =
                     IF b = attr /\ Root(structs, t) = Root(structs, lastCall'.self)
                     THEN [k \in DOMAIN Get(stores, structs[t], b) |->
                              IF AtomAt(structs[t], k) \in written THEN value
                              ELSE Get(stores, structs[t], b)[k]]
                     ELSE Get(stores, structs[t], b)]_vars

\* an assignment through a view of some but not all atoms, with a copy of
\* that view alive, whose values differ from the view's afterwards
C10_Witness ==
    /\ lastCall.op = "set"
    /\ LET self == structs[lastCall.self]
       IN  /\ ~self.selection.none
           /\ self.selection.idx # <<>>
           /\ Len(self.selection.idx) < Len(stores[self.store].e)
           /\ \E t \in DOMAIN structs :
                 /\ structs[t].parent = 0 /\ structs[t].store # self.store
                 /\ Len(stores[structs[t].store].e) = Len(self.selection.idx)
                 /\ Get(stores, structs[t], lastCall.attr)
                       # Get(stores, self, lastCall.attr)
           /\ \A k \in DOMAIN self.selection.idx :
                 Get(stores, structs[1], lastCall.attr)[self.selection.idx[k]]
                    = lastCall.value

====
